---- MODULE Spec2Model ----
(***************************************************************************)
(* A model of gen_test_output.py: list the directory `tests`, keep the     *)
(* regular files whose name does not contain ".out", and for each of them  *)
(* hand the line  krun --search <file> > <file>.out  to os.system, that    *)
(* is to /bin/sh -c.                                                       *)
(*                                                                         *)
(* A file name is a sequence of characters.  The literals of the script    *)
(* that hold no shell metacharacter ("krun", "--search", "tests") are      *)
(* single symbols; every character of a file name is a symbol of its own,  *)
(* so that the substring test of line 6 and the shell's reading of the     *)
(* command line of line 9 are computed character by character.             *)
(***************************************************************************)
EXTENDS Naturals, Sequences, FiniteSets, TLC

\* Largest number of entries the directory holds when a run starts.
MaxFiles == 3
\* Number of times the script is run in succession.
MaxRuns == 2

\* src line 5
TEST_DIR == <<"tests">>

\* The suffix of line 9 and the substring of line 6.
OutSuffix == <<".", "o", "u", "t">>

\* The names a directory entry may have: two plain names, a name of an
\* earlier output, and names with a blank, an ampersand and a quoted empty
\* string.  No name holds "/", ">" or two adjacent "&".
NamePool ==
  { <<"a">>,
    <<"b">>,
    <<"a", ".", "o", "u", "t">>,
    <<"a", " ", "b">>,
    <<"&">>,
    <<"a", ".", "'", "'", "o", "u", "t">> }

\* The names that may be directories instead of regular files: one that
\* line 6 would select were it a file, and one that is the output path of
\* another entry.
DirPool == { <<"b">>, <<"a", ".", "o", "u", "t">> }

VARIABLES
  dirState,  \* "ok", "missing" or "unreadable": what listdir(TEST_DIR) meets
  krunFound, \* whether the shell finds a krun on its PATH
  fs,        \* the entries of tests: name -> [kind, content]
  pc,        \* "start", "loop", "wait", "done", "crashed"
  files,     \* the list built by line 6
  i,         \* number of iterations of the loop of line 7 that are over
  run,       \* which run of the script this is
  calls,     \* exit status of each os.system call of this run, in order
  invoked,   \* the krun command lines the shell has executed in this run
  procs,     \* krun processes and background jobs that have not ended
  written,   \* names opened for writing in this run
  fs0,       \* fs as it was when this run listed the directory
  prev       \* what the previous run selected and left behind

vars == <<dirState, krunFound, fs, pc, files, i, run, calls, invoked, procs, written, fs0, prev>>

----------------------------------------------------------------------------
\* Strings

Contains(s, pat) ==
  \E k \in 1..(Len(s) + 1 - Len(pat)) : SubSeq(s, k, k + Len(pat) - 1) = pat

\* '%s/%s' % (TEST_DIR, file), line 8
PathOf(name) == TEST_DIR \o <<"/">> \o name

InTestDir(w) == Len(w) >= 2 /\ SubSeq(w, 1, 2) = TEST_DIR \o <<"/">>

NameOf(w) == SubSeq(w, 3, Len(w))

\* 'krun --search %s > %s.out' % (file, file), line 9
CmdLine(file) ==
  <<"krun", " ", "--search", " ">> \o file \o <<" ", ">", " ">> \o file \o OutSuffix

----------------------------------------------------------------------------
\* The directory listing, line 6

\* isfile(join(TEST_DIR, f)) and not '.out' in f
Qualifies(fsys, f) == fsys[f].kind = "file" /\ ~Contains(f, OutSuffix)

RECURSIVE Filter(_, _)
Filter(fsys, l) ==
  IF l = <<>> THEN <<>>
  ELSE (IF Qualifies(fsys, Head(l)) THEN <<Head(l)>> ELSE <<>>) \o Filter(fsys, Tail(l))

\* The orders in which listdir may yield the entries.
RECURSIVE Listings(_)
Listings(S) ==
  IF S = {} THEN {<<>>}
  ELSE UNION { { <<x>> \o l : l \in Listings(S \ {x}) } : x \in S }

\* A listing wrapped in a handler that swallows the error.
ListdirNeverRaises(d) == FALSE

\* listdir raises when the directory is missing or cannot be read.
ListdirRaises(d) == d # "ok"

----------------------------------------------------------------------------
\* os.system(line), line 9: /bin/sh -c line.  The shell splits the line into
\* words at blanks, removes single quotes (what they enclose is literal),
\* and reads ">" and "&" outside quotes as operators.

WordTok(w) == [t |-> "word", w |-> w]
OpTok(c) == [t |-> c, w |-> <<>>]

RECURSIVE Lex(_, _, _, _, _)
Lex(s, k, cur, open, quoted) ==
  IF k > Len(s) THEN (IF open THEN <<WordTok(cur)>> ELSE <<>>)
  ELSE LET c == s[k]
           flush == IF open THEN <<WordTok(cur)>> ELSE <<>>
       IN IF quoted
          THEN IF c = "'" THEN Lex(s, k + 1, cur, TRUE, FALSE)
                          ELSE Lex(s, k + 1, Append(cur, c), TRUE, TRUE)
          ELSE IF c = "'" THEN Lex(s, k + 1, cur, TRUE, TRUE)
          ELSE IF c = " " THEN flush \o Lex(s, k + 1, <<>>, FALSE, FALSE)
          ELSE IF c \in {"&", ">"}
               THEN flush \o <<OpTok(c)>> \o Lex(s, k + 1, <<>>, FALSE, FALSE)
          ELSE Lex(s, k + 1, Append(cur, c), TRUE, FALSE)

Tokens(line) == Lex(line, 1, <<>>, FALSE, FALSE)

\* A simple command: its words, and the target of its "> word" if it has one.
NoCmd == [words |-> <<>>, redir |-> FALSE, target |-> <<>>, bg |-> FALSE]

IsEmptyCmd(c) == c.words = <<>> /\ ~c.redir

\* The list of commands of a line: "&" ends a command and puts it in the
\* background; what follows the last "&" runs in the foreground.  A "&" with
\* no command before it, or a ">" with no word after it, is a syntax error.
RECURSIVE ParseFrom(_, _, _, _)
ParseFrom(toks, k, cur, acc) ==
  IF k > Len(toks)
  THEN [ok |-> TRUE, cmds |-> IF IsEmptyCmd(cur) THEN acc ELSE Append(acc, cur)]
  ELSE LET tk == toks[k] IN
    IF tk.t = "word"
    THEN ParseFrom(toks, k + 1, [cur EXCEPT !.words = Append(@, tk.w)], acc)
    ELSE IF tk.t = ">"
    THEN IF k + 1 <= Len(toks) /\ toks[k + 1].t = "word"
         THEN ParseFrom(toks, k + 2,
                        [cur EXCEPT !.redir = TRUE, !.target = toks[k + 1].w], acc)
         ELSE [ok |-> FALSE, cmds |-> <<>>]
    ELSE IF IsEmptyCmd(cur)
         THEN [ok |-> FALSE, cmds |-> <<>>]
         ELSE ParseFrom(toks, k + 1, NoCmd, Append(acc, [cur EXCEPT !.bg = TRUE]))

Parse(line) == ParseFrom(Tokens(line), 1, NoCmd, <<>>)

\* What the shell makes of the line built for the entry named n.  The lines
\* of the names of NamePool are parsed once and looked up.
ParsedPool == [n \in NamePool |-> Parse(CmdLine(PathOf(n)))]

Shell(n) == IF n \in NamePool THEN ParsedPool[n] ELSE Parse(CmdLine(PathOf(n)))

SelectCmds(cmds, bg) == SelectSeq(cmds, LAMBDA c : c.bg = bg)

----------------------------------------------------------------------------
\* The file system under tests

OrigContent == [src |-> "orig", run |-> 0, args |-> <<>>]
NoContent == [src |-> "none", run |-> 0, args |-> <<>>]

\* What krun wrote to its standard output when run with these arguments.
Stdout(r, args) == [src |-> "krun", run |-> r, args |-> args]

FileEntry(c) == [kind |-> "file", content |-> c]
DirEntry == [kind |-> "dir", content |-> NoContent]

\* "> w": the shell cannot create w when w is a directory.
OpenFails(fsys, w) ==
  InTestDir(w) /\ (NameOf(w) = <<>> \/
                   (NameOf(w) \in DOMAIN fsys /\ fsys[NameOf(w)].kind = "dir"))

\* "> w" creates w, or truncates it, before the command runs.
Truncate(fsys, w) ==
  IF InTestDir(w) THEN (NameOf(w) :> FileEntry(NoContent)) @@ fsys ELSE fsys

\* The command's output lands in the file the shell opened for it.
WriteOut(fsys, w, c) ==
  IF InTestDir(w) /\ NameOf(w) \in DOMAIN fsys /\ fsys[NameOf(w)].kind = "file"
  THEN [fsys EXCEPT ![NameOf(w)] = FileEntry(c)]
  ELSE fsys

\* A command whose redirection fails is not executed.
RunsDespite(openFailed) == ~openFailed

IsKrun(c) == c.words # <<>> /\ c.words[1] = <<"krun">>

\* A call that raises on a non-zero status, as subprocess.check_call does.
NextPcRaising(status, k, n) ==
  IF status # "ok" THEN "crashed" ELSE IF k = n THEN "done" ELSE "loop"

\* A loop that is left at the first non-zero status.
NextPcBreaking(status, k, n) ==
  IF status # "ok" \/ k = n THEN "done" ELSE "loop"

\* os.system returns the exit status; the script drops it and the loop of
\* line 7 goes on to the next file, or ends after the last.
NextPc(status, k, n) == IF k = n THEN "done" ELSE "loop"

Job(c, r, k) ==
  [run |-> r, idx |-> k, words |-> c.words, redir |-> c.redir,
   target |-> c.target, bg |-> c.bg, phase |-> IF c.bg THEN "forked" ELSE "running"]

Invocation(j) ==
  [run |-> j.run, idx |-> j.idx, args |-> Tail(j.words),
   redir |-> j.redir, target |-> j.target, bg |-> j.bg]

Range(f) == { f[x] : x \in DOMAIN f }

----------------------------------------------------------------------------
Init ==
  /\ dirState \in {"ok", "missing", "unreadable"}
  /\ krunFound \in BOOLEAN
  /\ \E S \in SUBSET NamePool :
       /\ Cardinality(S) <= MaxFiles
       /\ dirState = "missing" => S = {}
       /\ fs \in [S -> {FileEntry(OrigContent), DirEntry}]
       /\ \A n \in S : fs[n].kind = "dir" => n \in DirPool
  /\ pc = "start"
  /\ files = <<>>
  /\ i = 0
  /\ run = 1
  /\ calls = <<>>
  /\ invoked = {}
  /\ procs = {}
  /\ written = {}
  /\ fs0 = fs
  /\ prev = [ran |-> FALSE, files |-> {}, names |-> {}]

\* line 6, listdir raises: the script ends with a traceback.
ListdirFails ==
  /\ pc = "start"
  /\ ListdirRaises(dirState)
  /\ pc' = "crashed"
  /\ UNCHANGED <<dirState, krunFound, fs, files, i, run, calls, invoked, procs, written, fs0, prev>>

\* line 6
Listdir ==
  /\ pc = "start"
  /\ ~ListdirRaises(dirState)
  /\ \E l \in Listings(DOMAIN fs) :
       /\ files' = Filter(fs, l)
       /\ pc' = IF files' = <<>> THEN "done" ELSE "loop"
  /\ fs0' = fs
  /\ UNCHANGED <<dirState, krunFound, fs, i, run, calls, invoked, procs, written, prev>>

\* The call of os.system returns with this status.
Return(status) ==
  /\ i' = i + 1
  /\ calls' = Append(calls, status)
  /\ pc' = NextPc(status, i + 1, Len(files))

\* lines 7-9, up to the point where the shell waits for its foreground
\* command, or all the way when there is nothing to wait for.
SystemCall ==
  /\ pc = "loop"
  /\ LET p == Shell(files[i + 1])
         bgs == SelectCmds(p.cmds, TRUE)
         fgs == SelectCmds(p.cmds, FALSE)
         jobs == { Job(bgs[k], run, i + 1) : k \in DOMAIN bgs }
     IN IF ~p.ok
        THEN /\ Return("syntax")
             /\ UNCHANGED <<fs, invoked, procs, written>>
        ELSE IF fgs = <<>>
        THEN /\ Return("ok")
             /\ procs' = procs \cup jobs
             /\ UNCHANGED <<fs, invoked, written>>
        ELSE LET fg == fgs[1]
                 failed == fg.redir /\ OpenFails(fs, fg.target)
                 opened == fg.redir /\ ~failed
             IN /\ fs' = IF opened THEN Truncate(fs, fg.target) ELSE fs
                /\ written' = IF opened /\ InTestDir(fg.target)
                              THEN written \cup {NameOf(fg.target)} ELSE written
                /\ IF ~RunsDespite(failed)
                   THEN /\ Return("noredirect")
                        /\ procs' = procs \cup jobs
                        /\ UNCHANGED invoked
                   ELSE IF fg.words = <<>>
                   THEN /\ Return("ok")
                        /\ procs' = procs \cup jobs
                        /\ UNCHANGED invoked
                   ELSE IF ~IsKrun(fg)
                   THEN /\ Return("notfound")
                        /\ procs' = procs \cup jobs
                        /\ UNCHANGED invoked
                   ELSE /\ invoked' = invoked \cup {Invocation(Job(fg, run, i + 1))}
                        /\ IF krunFound
                             THEN /\ pc' = "wait"
                                  /\ procs' = procs \cup jobs \cup {Job(fg, run, i + 1)}
                                  /\ UNCHANGED <<i, calls>>
                             ELSE /\ Return("notfound")
                                  /\ procs' = procs \cup jobs
  /\ UNCHANGED <<dirState, krunFound, files, run, fs0, prev>>

\* line 9: the foreground krun ends, the shell ends, os.system returns.
SystemReturn ==
  /\ pc = "wait"
  /\ \E j \in procs :
       /\ ~j.bg
       /\ procs' = procs \ {j}
       /\ fs' = IF j.redir THEN WriteOut(fs, j.target, Stdout(j.run, Tail(j.words))) ELSE fs
  /\ \E status \in {"ok", "fail"} : Return(status)
  /\ UNCHANGED <<dirState, krunFound, files, run, invoked, written, fs0, prev>>

\* A background job the shell forked opens its redirection and executes.
BgExec ==
  /\ \E j \in procs :
       /\ j.bg /\ j.phase = "forked"
       /\ LET failed == j.redir /\ OpenFails(fs, j.target)
              opened == j.redir /\ ~failed
              mine == j.run = run /\ pc \in {"loop", "wait", "done"}
          IN /\ fs' = IF opened THEN Truncate(fs, j.target) ELSE fs
             /\ written' = IF opened /\ mine /\ InTestDir(j.target)
                           THEN written \cup {NameOf(j.target)} ELSE written
             /\ IF RunsDespite(failed) /\ IsKrun(j)
                THEN /\ invoked' = IF mine THEN invoked \cup {Invocation(j)} ELSE invoked
                     /\ procs' = IF krunFound
                                THEN (procs \ {j}) \cup {[j EXCEPT !.phase = "running"]}
                                ELSE procs \ {j}
                ELSE /\ procs' = procs \ {j}
                     /\ UNCHANGED invoked
  /\ UNCHANGED <<dirState, krunFound, pc, files, i, run, calls, fs0, prev>>

\* A background krun ends.
BgEnd ==
  /\ \E j \in procs :
       /\ j.bg /\ j.phase = "running"
       /\ procs' = procs \ {j}
       /\ fs' = IF j.redir THEN WriteOut(fs, j.target, Stdout(j.run, Tail(j.words))) ELSE fs
  /\ UNCHANGED <<dirState, krunFound, pc, files, i, run, calls, invoked, written, fs0, prev>>

\* The script is run again on what the previous run left, once the
\* background jobs of the previous run are over.
RunAgain ==
  /\ pc \in {"done", "crashed"}
  /\ procs = {}
  /\ run < MaxRuns
  /\ run' = run + 1
  /\ pc' = "start"
  /\ files' = <<>>
  /\ i' = 0
  /\ calls' = <<>>
  /\ invoked' = {}
  /\ written' = {}
  /\ fs0' = fs
  /\ prev' = [ran |-> pc = "done", files |-> Range(files), names |-> DOMAIN fs]
  /\ UNCHANGED <<dirState, krunFound, fs, procs>>

Next ==
  \/ ListdirFails
  \/ Listdir
  \/ SystemCall
  \/ SystemReturn
  \/ BgExec
  \/ BgEnd
  \/ RunAgain

Spec == Init /\ [][Next]_vars

----------------------------------------------------------------------------
\* Vocabulary of the properties

\* The files line 6 selects from a directory.
QualifyingIn(fsys) == { f \in DOMAIN fsys : Qualifies(fsys, f) }

OutName(f) == f \o OutSuffix

\* The arguments krun is meant to get for the file named f.
MeantArgs(f) == << <<"--search">>, PathOf(f) >>

\* The k-th call of this run could not open its output file.
OpenFailedAt(k) == k \in 1..Len(calls) /\ calls[k] = "noredirect"

AllOutputsOpened == \A k \in 1..Len(calls) : calls[k] # "noredirect"

\* The krun processes that are running.
Running == { j \in procs : j.phase = "running" }

\* The target of the foreground command of the line built for the file f.
FgTarget(f) ==
  LET fgs == SelectCmds(Shell(f).cmds, FALSE)
  IN IF fgs # <<>> /\ fgs[1].redir THEN fgs[1].target ELSE <<>>

\* The k-th call failed to open exactly the file <input path>.out.
OutFileOpenFailedAt(k) ==
  OpenFailedAt(k) /\ FgTarget(files[k]) = PathOf(OutName(files[k]))

----------------------------------------------------------------------------
\* C1: after a run that completes, every regular file f of tests whose name
\* has no ".out" has a file f.out holding the standard output of the krun
\* that this run invoked on f.  Stated for the runs in which every output
\* file could be opened and no background job is left, with an empty file
\* as the captured output when there is no krun.
C1_EveryInputHasItsOutput ==
  (pc = "done" /\ AllOutputsOpened /\ procs = {}) =>
    \A f \in QualifyingIn(fs0) :
      /\ OutName(f) \in DOMAIN fs
      /\ fs[OutName(f)] =
           FileEntry(IF krunFound THEN Stdout(run, MeantArgs(f)) ELSE NoContent)

\* C2: no krun is ever invoked on an input path whose name contains ".out",
\* and no output of an output (a name with ".out.out") is produced.
C2_NoOutputUsedAsInput ==
  /\ \A v \in invoked : Len(v.args) >= 2 => ~Contains(v.args[2], OutSuffix)
  /\ \A n \in written : ~Contains(n, OutSuffix \o OutSuffix)

\* C3: in a completed run the number of invocations is the number of
\* qualifying files, each qualifying file is the argument of exactly one
\* invocation, and that invocation writes to <input path>.out.  Stated for
\* the runs in which every output file could be opened and no background job
\* is left.
C3_ExactlyOncePerInput ==
  (pc = "done" /\ AllOutputsOpened /\ procs = {}) =>
    /\ Cardinality(invoked) = Len(files)
    /\ \A k \in 1..Len(files) :
         LET mine == { v \in invoked : v.args = MeantArgs(files[k]) }
         IN /\ Cardinality(mine) = 1
            /\ \A v \in mine : v.redir /\ v.target = PathOf(OutName(files[k]))

\* C4: a second run in succession selects the inputs the first run selected
\* and leaves the set of files the first run left.
C4_SecondRunChangesNoFileSet ==
  (run >= 2 /\ pc = "done" /\ prev.ran /\ procs = {}) =>
    /\ Range(files) = prev.files
    /\ DOMAIN fs = prev.names

\* C5: when krun is absent or exits with a failure for some file, the run
\* does not stop: it never ends with an error, it is over only when every
\* file of the list has had its call, and until then a next file is due.
C5_FailureDoesNotStopTheRun ==
  (\E k \in 1..Len(calls) : calls[k] \in {"notfound", "fail"}) =>
    /\ pc # "crashed"
    /\ pc = "done" => Len(calls) = Len(files)
    /\ pc = "loop" => Len(calls) < Len(files)

C5_Witness ==
  /\ pc = "done"
  /\ Len(calls) >= 2
  /\ \E k \in 1..(Len(calls) - 1) :
       /\ calls[k] \in {"notfound", "fail"}
       /\ \E v \in invoked : v.idx > k

\* C6: when tests is missing or cannot be listed the run ends with the
\* error of the listing: no call is made, no krun is invoked and nothing is
\* created or overwritten.
C6_ListingErrorEndsTheRun ==
  dirState # "ok" =>
    /\ pc \in {"start", "crashed"}
    /\ files = <<>>
    /\ calls = <<>>
    /\ invoked = {}
    /\ written = {}
    /\ procs = {}
    /\ fs = fs0

C6_Witness ==
  /\ pc = "crashed"
  /\ dirState = "unreadable"
  /\ QualifyingIn(fs) # {}

\* C7 as stated: when <input path>.out cannot be opened for the file f, the
\* run ends at that iteration: no later file of the list has its call made
\* or under way.
C7_OpenFailureEndsTheRun ==
  \A k \in 1..Len(calls) :
    OutFileOpenFailedAt(k) => (Len(calls) = k /\ pc # "wait")

\* C7 as amended: when <input path>.out cannot be opened for the file f,
\* krun is not invoked for f, and the run does not stop: it never ends with
\* an error, it is over only when every file of the list has had its call,
\* and until then a next file is due.
C7_OpenFailureSkipsOnlyThatFile ==
  \A k \in 1..Len(calls) :
    OutFileOpenFailedAt(k) =>
      /\ ~\E v \in invoked : v.idx = k
      /\ pc # "crashed"
      /\ pc = "done" => Len(calls) = Len(files)
      /\ pc = "loop" => Len(calls) < Len(files)

C7_Witness ==
  /\ pc = "done"
  /\ \E k \in 1..Len(calls) :
       /\ OutFileOpenFailedAt(k)
       /\ \E v \in invoked : v.idx > k

\* C8: at every point at most one krun started by the script is running.
C8_OneProcessAtATime == Cardinality(Running) <= 1

\* C9: a run opens for writing only the paths <input path>.out of its
\* qualifying inputs, every other entry stays as the run found it, and a run
\* that selects no file invokes nothing and changes nothing.
C9_WritesOnlyOutputs ==
  LET outs == { OutName(f) : f \in Range(files) }
  IN /\ written \subseteq outs
     /\ \A n \in DOMAIN fs0 \ outs : n \in DOMAIN fs /\ fs[n] = fs0[n]
     /\ (pc = "done" /\ files = <<>>) => (invoked = {} /\ fs = fs0)

\* C10: two invocations of a run for two different files never write to the
\* same path, and no path a run writes to is the path of one of its inputs.
C10_OutputsNeverContended ==
  /\ \A v, w \in invoked :
       (v.idx # w.idx /\ v.redir /\ w.redir) => v.target # w.target
  /\ written \cap Range(files) = {}

====
